---- MODULE Spec2Model ----
(***************************************************************************)
(* A model of two parts of the replication tool:                           *)
(*   - locationRecorder (dm/syncer/binlog_locations.go), the bookkeeping   *)
(*     of current-start / current-end / transaction-end locations;         *)
(*   - BinlogReader (the relay log reader), which walks the relay          *)
(*     sub directories and feeds decoded events into a stream.             *)
(* The recorder is checked under SpecRec, the reader under Spec.           *)
(***************************************************************************)
EXTENDS Integers, Sequences, FiniteSets, TLC

\* ------------------------------------------------------------------------
\* locationRecorder: state
\* ------------------------------------------------------------------------
VARIABLES
    curStartLocation,   \* locationRecorder.curStartLocation
    curEndLocation,     \* locationRecorder.curEndLocation
    txnEndLocation,     \* locationRecorder.txnEndLocation
    inDML,              \* locationRecorder.inDML
    \* history of the recorder, read only by the properties
    lastOp,             \* "none" | "reset" | "update": the last call made
    lastEv,             \* the event of the last update (NoEvent otherwise)
    pre,                \* the recorder's fields as they were before the last call
    winAny,             \* a BEGIN query event was fed and no XID / COMMIT event since
    winAdv              \* the same, for a BEGIN that advances positions, closed
                        \* also by a rotation event that names another file

recVars == <<curStartLocation, curEndLocation, txnEndLocation, inDML,
             lastOp, lastEv, pre, winAny, winAdv>>

\* BinlogReader, its caller, the stream and the relay directory
VARIABLES
    index,          \* the UUID index file on disk: NoIndex, or the list of UUIDs
    dirs,           \* the relay sub directories: per epoch, the list of relay
                    \* log files, each the list of the events written to it
    running,        \* BinlogReader.running
    uuids,          \* BinlogReader.uuids
    ctxDone,        \* BinlogReader.ctx is cancelled
    parserStopped,  \* BinlogReader.parser was told to stop
    wg,             \* BinlogReader.wg: the number of workers not yet done
    callerPc,       \* the caller: "idle", or inside Close: "stopping" (before
                    \* parser.Stop) or "closing" (at wg.Wait)
    call,           \* the caller's last call: its name, its argument, its result
    w,              \* the worker started by StartSync: its place and its locals
    ch,             \* LocalStreamer.ch: the number of events sent and not yet received
    streamErr,      \* the error the stream was closed with ("none": no error)
    \* history of the stream, read only by the properties
    lastSent,       \* the last decoded event sent (NoSent: none yet)
    prevSent,       \* the decoded event sent before lastSent
    lastFake        \* the last fake rotation event sent, and how many times
                    \* (1, or 2 for more) one was sent for its file

rdrVars == <<index, dirs, running, uuids, ctxDone, parserStopped, wg, callerPc,
             call, w, ch, streamErr, lastSent, prevSent, lastFake>>

\* The last application of one of the reader's pure functions to arguments
\* of its domain: the function, the arguments, the result
VARIABLES fn

fnVars == <<fn>>

\* locationRecorder.mu, and the two threads that take it
VARIABLES
    mu,             \* locationRecorder.mu: "free", or the thread that holds it
    updater,        \* the thread that calls update() and reset(): its place in
                    \* the call, the call's argument, and the recorder's
                    \* fields as the call found them
    getter,         \* the thread that calls getCurEndLocation(): its place,
                    \* and the place the updater was at when Lock() was called
    got,            \* the value getCurEndLocation() returned last
    stable          \* curEndLocation as it stood when the last update() or
                    \* reset() completed (history, read only by the properties)

lockVars == <<mu, updater, getter, got, stable>>

\* All but the recorder's variables, all but the reader's
\* relaySubDirUpdated taken by itself: the caller's place in it, its watcher,
\* its goroutine and result channel, the context, and the goroutines of
\* earlier calls that have not returned yet
VARIABLES wt

notRecVars == <<rdrVars, fnVars, lockVars, wt>>

notRdrVars == <<recVars, fnVars, lockVars, wt>>

\* binlog.FileHeaderLen: the length of the magic header of a binlog file
FileHeaderLen == 4

\* Event log positions are FileHeaderLen+1 .. FileHeaderLen+MaxDelta
MaxDelta == 2

LogPoses == (FileHeaderLen + 1)..(FileHeaderLen + MaxDelta)

RecNames == {"mysql-bin.000001", "mysql-bin.000002"}

GSets == {"gset-a", "gset-b"}

\* The zero value of binlog.Location (a recorder that was constructed and
\* never reset).
ZeroLocation == [name |-> "", pos |-> 0, gset |-> "nil"]

Locations ==
    [name : RecNames, pos : FileHeaderLen..(FileHeaderLen + MaxDelta), gset : GSets]

\* Query texts, as sequences of tokens; " " is white space.
Queries ==
    { <<"BEGIN">>, <<"COMMIT">>, <<" ", "COMMIT", " ">>, <<"ALTER">> }

\* Event types that shouldUpdatePos refuses
NonAdvancingTypes ==
    {"FORMAT_DESCRIPTION_EVENT", "HEARTBEAT_EVENT", "IGNORABLE_EVENT",
     "PREVIOUS_GTIDS_EVENT", "MARIADB_GTID_LIST_EVENT"}

\* Event types with no case of their own in update()
PlainTypes == {"WRITE_ROWS_EVENT", "GTID_EVENT"}

NoEvent == [type |-> "none"]

\* A replication.BinlogEvent: the header's type, LOG_EVENT_ARTIFICIAL_F and
\* log position, and the fields of the payload that update() reads.
MkEvent(t, art, lp, nn, q, g, ddl) ==
    [type |-> t, artificial |-> art, logPos |-> lp, nextName |-> nn,
     query |-> q, gset |-> g, isDDL |-> ddl]

RecEvents ==
    {MkEvent("ROTATE_EVENT", a, 0, n, <<>>, "nil", FALSE) :
        a \in BOOLEAN, n \in RecNames}
    \cup {MkEvent("XID_EVENT", ag[1], lg[1], "", <<>>, lg[2], FALSE) :
        ag \in BOOLEAN \X {0}, lg \in LogPoses \X GSets}
    \cup {MkEvent("QUERY_EVENT", aq[1], lg[1], "", aq[2], lg[2], FALSE) :
        aq \in BOOLEAN \X Queries, lg \in LogPoses \X GSets}
    \cup {MkEvent("MARIADB_GTID_EVENT", ad[1], l, "", <<>>, "nil", ad[2]) :
        ad \in BOOLEAN \X BOOLEAN, l \in LogPoses}
    \cup {MkEvent(ta[1], ta[2], l, "", <<>>, "nil", FALSE) :
        ta \in PlainTypes \X BOOLEAN, l \in LogPoses}
    \cup {MkEvent(ta[1], ta[2], FileHeaderLen + 1, "", <<>>, "nil", FALSE) :
        ta \in NonAdvancingTypes \X BOOLEAN}

\* ------------------------------------------------------------------------
\* locationRecorder: helpers
\* ------------------------------------------------------------------------

\* strings.TrimSpace on a token sequence
RECURSIVE TrimLeft(_)
TrimLeft(q) ==
    IF q # <<>> /\ Head(q) = " " THEN TrimLeft(Tail(q)) ELSE q

RECURSIVE TrimRight(_)
TrimRight(q) ==
    IF q # <<>> /\ q[Len(q)] = " " THEN TrimRight(SubSeq(q, 1, Len(q) - 1)) ELSE q

TrimSpace(q) == TrimRight(TrimLeft(q))

\* (mutant: LOG_EVENT_ARTIFICIAL_F is not looked at)
shouldUpdatePosNoFlag(e) == e.type \notin NonAdvancingTypes

shouldUpdatePos(e) ==
    /\ e.type \notin NonAdvancingTypes
    /\ ~e.artificial

\* binlog.Location.SetGTID: the location with its GTID set replaced
SetGTID(loc, gset) == [loc EXCEPT !.gset = gset]

setCurrentGTID(loc, gset) == SetGTID(loc, gset)

\* The recorder's fields as a record, so that update() is one function
Fields == [start |-> curStartLocation, end |-> curEndLocation,
           txn |-> txnEndLocation, inDML |-> inDML]

saveTxnEndLocation(f) == [f EXCEPT !.txn = f.end]

\* update(), lines 128-136: the rotation event
\* (mutant: the comparison of the names is missing)
updateRotateAlways(f, e) ==
    saveTxnEndLocation(
        [f EXCEPT !.end = [@ EXCEPT !.name = e.nextName, !.pos = FileHeaderLen]])

updateRotate(f, e) ==
    IF f.end.name # e.nextName
    THEN saveTxnEndLocation(
            [f EXCEPT !.end = [@ EXCEPT !.name = e.nextName, !.pos = FileHeaderLen]])
    ELSE f

\* update(), lines 141-145: the XID event
\* (mutant: the flag is not cleared)
updateXIDKeepDML(f, e) ==
    saveTxnEndLocation([f EXCEPT !.end = setCurrentGTID(@, e.gset)])

updateXID(f, e) ==
    [saveTxnEndLocation([f EXCEPT !.end = setCurrentGTID(@, e.gset)])
        EXCEPT !.inDML = FALSE]

\* update(), lines 146-164: the query event
\* (mutant: the flag is not consulted)
updateQueryNoDML(f, e) ==
    saveTxnEndLocation([f EXCEPT !.end = setCurrentGTID(@, e.gset)])

updateQuery(f, e) ==
    LET query == TrimSpace(e.query)
        g == IF query = <<"BEGIN">> THEN [f EXCEPT !.inDML = TRUE]
             ELSE IF query = <<"COMMIT">> THEN [f EXCEPT !.inDML = FALSE]
             ELSE f
    IN  IF g.inDML THEN g
        ELSE saveTxnEndLocation([g EXCEPT !.end = setCurrentGTID(@, e.gset)])

\* update(), lines 165-168: the MariaDB GTID event
\* (mutant: the event is taken for a transaction boundary)
updateMariadbGTIDSave(f, e) ==
    saveTxnEndLocation(IF ~e.isDDL THEN [f EXCEPT !.inDML = TRUE] ELSE f)

updateMariadbGTID(f, e) ==
    IF ~e.isDDL THEN [f EXCEPT !.inDML = TRUE] ELSE f

\* update(), line 122
\* (mutant: the assignment is missing)
updateStartLate(f) == f

updateStart(f) == [f EXCEPT !.start = f.end]

\* update(): the fields after the call, from the fields before it
update(f, e) ==
    LET f1 == updateStart(f) IN
    IF ~shouldUpdatePos(e) THEN f1
    ELSE IF e.type = "ROTATE_EVENT" THEN updateRotate(f1, e)
    ELSE
        LET f2 == [f1 EXCEPT !.end = [@ EXCEPT !.pos = e.logPos]] IN
        CASE e.type = "XID_EVENT" -> updateXID(f2, e)
          [] e.type = "QUERY_EVENT" -> updateQuery(f2, e)
          [] e.type = "MARIADB_GTID_EVENT" -> updateMariadbGTID(f2, e)
          [] OTHER -> f2

\* reset(): the inDML flag is not touched
\* (mutant: the flag is cleared)
resetClearsDML(f, loc) ==
    [f EXCEPT !.start = loc, !.end = loc, !.txn = loc, !.inDML = FALSE]

reset(f, loc) == [f EXCEPT !.start = loc, !.end = loc, !.txn = loc]

IsQuery(e, text) == e.type = "QUERY_EVENT" /\ TrimSpace(e.query) = text

IsBegin(e) == IsQuery(e, <<"BEGIN">>)

IsCommit(e) == IsQuery(e, <<"COMMIT">>)

IsXID(e) == e.type = "XID_EVENT"

IsRotate(e) == e.type = "ROTATE_EVENT"

Snapshot == [end |-> curEndLocation, txn |-> txnEndLocation,
             inDML |-> inDML, op |-> lastOp, winAny |-> winAny, winAdv |-> winAdv]

\* ------------------------------------------------------------------------
\* locationRecorder: actions
\* ------------------------------------------------------------------------
InitRec ==
    /\ curStartLocation = ZeroLocation
    /\ curEndLocation = ZeroLocation
    /\ txnEndLocation = ZeroLocation
    /\ inDML = FALSE
    /\ lastOp = "none"
    /\ lastEv = NoEvent
    /\ pre = [end |-> ZeroLocation, txn |-> ZeroLocation,
              inDML |-> FALSE, op |-> "none", winAny |-> FALSE, winAdv |-> FALSE]
    /\ winAny = FALSE
    /\ winAdv = FALSE

SetFields(f) ==
    /\ curStartLocation' = f.start
    /\ curEndLocation' = f.end
    /\ txnEndLocation' = f.txn
    /\ inDML' = f.inDML

RecReset(loc) ==
    /\ SetFields(reset(Fields, loc))
    /\ lastOp' = "reset"
    /\ lastEv' = NoEvent
    /\ pre' = Snapshot
    /\ winAny' = FALSE
    /\ winAdv' = FALSE
    /\ UNCHANGED notRecVars

RecUpdate(e) ==
    /\ SetFields(update(Fields, e))
    /\ lastOp' = "update"
    /\ lastEv' = e
    /\ pre' = Snapshot
    /\ winAny' = IF IsBegin(e) THEN TRUE
                 ELSE IF IsXID(e) \/ IsCommit(e) THEN FALSE
                 ELSE winAny
    /\ winAdv' = IF IsBegin(e) /\ shouldUpdatePos(e) THEN TRUE
                 ELSE IF IsXID(e) \/ IsCommit(e) THEN FALSE
                 ELSE IF IsRotate(e) /\ shouldUpdatePos(e)
                         /\ e.nextName # curEndLocation.name THEN FALSE
                 ELSE winAdv
    /\ UNCHANGED notRecVars

\* ------------------------------------------------------------------------
\* locationRecorder: the mutex
\* ------------------------------------------------------------------------
\* The events and the locations the updater thread calls update() and
\* reset() with
LockEvents ==
    {e \in RecEvents :
        /\ ~e.artificial
        /\ e.type \in {"ROTATE_EVENT", "XID_EVENT", "QUERY_EVENT",
                        "FORMAT_DESCRIPTION_EVENT"}
        /\ e.type = "ROTATE_EVENT" => e.nextName = "mysql-bin.000002"
        /\ e.type = "QUERY_EVENT" => e.query = <<"BEGIN">>
        /\ e.type \in {"XID_EVENT", "QUERY_EVENT"} =>
              (e.logPos = FileHeaderLen + 1 /\ e.gset = "gset-b")}

LockLocs == {[name |-> "mysql-bin.000001", pos |-> FileHeaderLen, gset |-> "gset-a"]}

ZeroFields == [start |-> ZeroLocation, end |-> ZeroLocation,
               txn |-> ZeroLocation, inDML |-> FALSE]

IdleUpdater == [pc |-> "idle", e |-> NoEvent, loc |-> ZeroLocation, f0 |-> ZeroFields]

IdleGetter == [pc |-> "idle", at |-> "idle"]

InitLock ==
    /\ mu = "free"
    /\ updater = IdleUpdater
    /\ getter = IdleGetter
    /\ got = ZeroLocation
    /\ stable = ZeroLocation

\* l.mu.Lock() returns when no thread holds the mutex
\* (mutant: it returns at once)
CanLockAlways == TRUE

CanLock == mu = "free"

\* update(), one assignment at a time: the fields and the place after the
\* assignment at place pc
updateStep(f, pc, e) ==
    CASE pc = "start" ->
            [f |-> [f EXCEPT !.start = f.end],
             pc |-> IF ~shouldUpdatePos(e) THEN "unlock"
                    ELSE IF e.type = "ROTATE_EVENT"
                    THEN IF f.end.name # e.nextName THEN "rotName" ELSE "unlock"
                    ELSE "pos"]
      [] pc = "rotName" ->
            [f |-> [f EXCEPT !.end = [@ EXCEPT !.name = e.nextName]], pc |-> "rotPos"]
      [] pc = "rotPos" ->
            [f |-> [f EXCEPT !.end = [@ EXCEPT !.pos = FileHeaderLen]], pc |-> "save"]
      [] pc = "pos" ->
            [f |-> [f EXCEPT !.end = [@ EXCEPT !.pos = e.logPos]],
             pc |-> IF e.type = "XID_EVENT" THEN "gtid"
                    ELSE IF e.type \in {"QUERY_EVENT", "MARIADB_GTID_EVENT"} THEN "flag"
                    ELSE "unlock"]
      [] pc = "flag" ->
            IF e.type = "QUERY_EVENT"
            THEN LET query == TrimSpace(e.query)
                     g == IF query = <<"BEGIN">> THEN [f EXCEPT !.inDML = TRUE]
                          ELSE IF query = <<"COMMIT">> THEN [f EXCEPT !.inDML = FALSE]
                          ELSE f
                 IN  [f |-> g, pc |-> IF g.inDML THEN "unlock" ELSE "gtid"]
            ELSE [f |-> IF ~e.isDDL THEN [f EXCEPT !.inDML = TRUE] ELSE f,
                  pc |-> "unlock"]
      [] pc = "gtid" ->
            [f |-> [f EXCEPT !.end = setCurrentGTID(@, e.gset)], pc |-> "save"]
      [] pc = "save" ->
            [f |-> saveTxnEndLocation(f),
             pc |-> IF e.type = "XID_EVENT" THEN "clear" ELSE "unlock"]
      [] pc = "clear" ->
            [f |-> [f EXCEPT !.inDML = FALSE], pc |-> "unlock"]

\* reset(), one assignment at a time
resetStep(f, pc, loc) ==
    CASE pc = "rStart" -> [f |-> [f EXCEPT !.start = loc], pc |-> "rEnd"]
      [] pc = "rEnd" -> [f |-> [f EXCEPT !.end = loc], pc |-> "rTxn"]
      [] pc = "rTxn" -> [f |-> [f EXCEPT !.txn = loc], pc |-> "unlock"]

UpdatePcs == {"start", "rotName", "rotPos", "pos", "flag", "gtid", "save", "clear"}

ResetPcs == {"rStart", "rEnd", "rTxn"}

LockFrame == UNCHANGED <<lastOp, lastEv, pre, winAny, winAdv, rdrVars, fnVars, wt>>

RecFieldsUnchanged ==
    UNCHANGED <<curStartLocation, curEndLocation, txnEndLocation, inDML>>

\* update(e) takes the mutex
UpdLock(e) ==
    /\ updater.pc = "idle"
    /\ CanLock
    /\ mu' = "updater"
    /\ updater' = [pc |-> "start", e |-> e, loc |-> ZeroLocation, f0 |-> Fields]
    /\ RecFieldsUnchanged
    /\ UNCHANGED <<getter, got, stable>>
    /\ LockFrame

\* update() makes its next assignment
UpdStep ==
    /\ updater.pc \in UpdatePcs
    /\ LET r == updateStep(Fields, updater.pc, updater.e) IN
        /\ SetFields(r.f)
        /\ updater' = [updater EXCEPT !.pc = r.pc]
    /\ UNCHANGED <<mu, getter, got, stable>>
    /\ LockFrame

\* reset(loc) takes the mutex
RstLock(loc) ==
    /\ updater.pc = "idle"
    /\ CanLock
    /\ mu' = "updater"
    /\ updater' = [pc |-> "rStart", e |-> NoEvent, loc |-> loc, f0 |-> Fields]
    /\ RecFieldsUnchanged
    /\ UNCHANGED <<getter, got, stable>>
    /\ LockFrame

\* reset() makes its next assignment
RstStep ==
    /\ updater.pc \in ResetPcs
    /\ LET r == resetStep(Fields, updater.pc, updater.loc) IN
        /\ SetFields(r.f)
        /\ updater' = [updater EXCEPT !.pc = r.pc]
    /\ UNCHANGED <<mu, getter, got, stable>>
    /\ LockFrame

\* the deferred l.mu.Unlock() of update() and reset()
UpdUnlock ==
    /\ updater.pc = "unlock"
    /\ mu' = "free"
    /\ updater' = IdleUpdater
    /\ stable' = curEndLocation
    /\ RecFieldsUnchanged
    /\ UNCHANGED <<getter, got>>
    /\ LockFrame

\* getCurEndLocation() is called: the thread is at l.mu.Lock()
GetCall ==
    /\ getter.pc = "idle"
    /\ getter' = [pc |-> "waiting", at |-> updater.pc]
    /\ RecFieldsUnchanged
    /\ UNCHANGED <<mu, updater, got, stable>>
    /\ LockFrame

\* getCurEndLocation() takes the mutex
GetLock ==
    /\ getter.pc = "waiting"
    /\ CanLock
    /\ mu' = "getter"
    /\ getter' = [getter EXCEPT !.pc = "locked"]
    /\ RecFieldsUnchanged
    /\ UNCHANGED <<updater, got, stable>>
    /\ LockFrame

\* getCurEndLocation() copies l.curEndLocation for its return
GetRead ==
    /\ getter.pc = "locked"
    /\ got' = curEndLocation
    /\ getter' = [getter EXCEPT !.pc = "read"]
    /\ RecFieldsUnchanged
    /\ UNCHANGED <<mu, updater, stable>>
    /\ LockFrame

\* the deferred l.mu.Unlock() of getCurEndLocation()
GetUnlock ==
    /\ getter.pc = "read"
    /\ mu' = "free"
    /\ getter' = IdleGetter
    /\ RecFieldsUnchanged
    /\ UNCHANGED <<updater, got, stable>>
    /\ LockFrame

\* ------------------------------------------------------------------------
\* BinlogReader: state
\* ------------------------------------------------------------------------
\* The relay writer makes at most MaxWrites changes to the relay directory
MaxWrites == 5

\* newLocalStreamer: the capacity of the stream's channel
StreamCap == 1

\* Strings are sequences of tokens. posUUIDSuffixSeparator, baseSeqSeparator
posUUIDSuffixSeparator == "|"

baseSeqSeparator == "."

\* "%06d" of 1, 2, ...: the sequence numbers of files and the UUID suffixes
DigitStrs == <<"000001", "000002", "000003", "000004">>

\* the UUIDs the relay writer puts into the index, in this order
AllUUIDs == << <<"uuid-a", ".", "000001">>, <<"uuid-b", ".", "000002">> >>

BaseName == <<"mysql-bin">>

EmptyName == <<>>

\* the index when there is no index file: no list of UUIDs
NoIndex == << <<"no index file">> >>

NoSent == [kind |-> "none"]

NoFake == [item |-> NoSent, n |-> 0]

\* strconv.Atoi and fmt.Sprintf("%06d") on a one-token string
StrToInt(s) == CHOOSE n \in 1..Len(DigitStrs) : DigitStrs[n] = s[1]

SuffixIntToStr(n) == <<DigitStrs[n]>>

\* strings.Index for a one-token separator: 0-based, -1 when absent
RECURSIVE IndexFrom(_, _, _)
IndexFrom(s, sep, from) ==
    IF from > Len(s) THEN -1
    ELSE IF s[from] = sep THEN from - 1
    ELSE IndexFrom(s, sep, from + 1)

StringsIndex(s, sep) == IndexFrom(s, sep, 1)

\* strings.LastIndex
RECURSIVE LastIndexFrom(_, _, _)
LastIndexFrom(s, sep, from) ==
    IF from < 1 THEN -1
    ELSE IF s[from] = sep THEN from - 1
    ELSE LastIndexFrom(s, sep, from - 1)

StringsLastIndex(s, sep) == LastIndexFrom(s, sep, Len(s))

HasSuffix(s, suffix) ==
    /\ Len(suffix) <= Len(s)
    /\ SubSeq(s, Len(s) - Len(suffix) + 1, Len(s)) = suffix

\* parseBinlogFile: the name split at its separator into base name and
\* sequence number
parseBinlogFile(name) ==
    LET dot == StringsIndex(name, baseSeqSeparator) IN
    [baseName |-> SubSeq(name, 1, dot), seq |-> SubSeq(name, dot + 2, Len(name))]

constructBinlogFilename(baseName, seq) == baseName \o <<baseSeqSeparator>> \o seq

\* constructBinlogName (mutant: the UUID suffix is left out)
constructBinlogNameNoSuffix(originalName, uuidSuffix) ==
    originalName.baseName \o <<baseSeqSeparator>> \o originalName.seq

constructBinlogName(originalName, uuidSuffix) ==
    originalName.baseName \o <<posUUIDSuffixSeparator>> \o uuidSuffix
        \o <<baseSeqSeparator>> \o originalName.seq

\* utils.ParseSuffixForUUID: the number after the last separator of the UUID
ParseSuffixForUUID(uuid) ==
    StrToInt(SubSeq(uuid, StringsLastIndex(uuid, baseSeqSeparator) + 2, Len(uuid)))

\* utils.GetUUIDBySuffix: the first UUID that ends with the suffix, or empty
RECURSIVE GetUUIDBySuffixFrom(_, _, _)
GetUUIDBySuffixFrom(uu, suffix, from) ==
    IF from > Len(uu) THEN <<>>
    ELSE IF HasSuffix(uu[from], <<baseSeqSeparator>> \o suffix) THEN uu[from]
    ELSE GetUUIDBySuffixFrom(uu, suffix, from + 1)

GetUUIDBySuffix(uu, suffix) == GetUUIDBySuffixFrom(uu, suffix, 1)

\* extractPos
extractPos(uu, pos) ==
    IF Len(uu) = 0
    THEN [err |-> TRUE, uuid |-> <<>>, suffix |-> <<>>, realPos |-> pos]
    ELSE
        LET parsed == parseBinlogFile(pos.name)
            sepIdx == StringsIndex(parsed.baseName, posUUIDSuffixSeparator)
        IN  IF sepIdx > 0 /\ sepIdx + 1 < Len(parsed.baseName)
            THEN
                LET realBaseName == SubSeq(parsed.baseName, 1, sepIdx)
                    masterUUIDSuffix ==
                        SubSeq(parsed.baseName, sepIdx + 2, Len(parsed.baseName))
                    uuid == GetUUIDBySuffix(uu, masterUUIDSuffix)
                IN  IF Len(uuid) > 0
                    THEN [err |-> FALSE, uuid |-> uuid, suffix |-> masterUUIDSuffix,
                          realPos |-> [name |-> constructBinlogFilename(realBaseName, parsed.seq),
                                       pos |-> pos.pos]]
                    ELSE [err |-> TRUE, uuid |-> <<>>, suffix |-> <<>>,
                          realPos |-> [name |-> <<>>, pos |-> 0]]
            ELSE
                LET uuid == uu[Len(uu)] IN
                [err |-> FALSE, uuid |-> uuid,
                 suffix |-> SuffixIntToStr(ParseSuffixForUUID(uuid)), realPos |-> pos]

\* getNextUUID: the UUID after uuid in the list, or empty
RECURSIVE getNextUUIDFrom(_, _, _)
getNextUUIDFrom(uu, uuid, i) ==
    IF i < 1 THEN <<>>
    ELSE IF uu[i] = uuid THEN uu[i + 1]
    ELSE getNextUUIDFrom(uu, uuid, i - 1)

getNextUUID(uu, uuid) == getNextUUIDFrom(uu, uuid, Len(uu) - 1)

\* ------------------------------------------------------------------------
\* The relay directory
\* ------------------------------------------------------------------------

\* The epoch (sub directory) of a UUID
EpochOf(uuid) == CHOOSE e \in 1..Len(AllUUIDs) : AllUUIDs[e] = uuid

\* The name of the k-th relay log file of a sub directory
FileName(k) == constructBinlogFilename(BaseName, <<DigitStrs[k]>>)

\* The place of a named file in its sub directory
FileNo(name) == StrToInt(parseBinlogFile(name).seq)

\* os.Stat(path).Size(): the header, then one unit per event
FileSize(e, k) == FileHeaderLen + Len(dirs[e][k])

\* readDir: the names of the files of a sub directory, sorted
readDir(e) == [k \in 1..Len(dirs[e]) |-> FileName(k)]

\* binlogFile.LessThan
LessThan(a, b) == a.baseName = b.baseName /\ StrToInt(a.seq) < StrToInt(b.seq)

\* collectBinlogFiles: the files of the directory not less than firstFile
RECURSIVE collectFrom(_, _, _)
collectFrom(files, fp, k) ==
    IF k > Len(files) THEN <<>>
    ELSE IF ~LessThan(parseBinlogFile(files[k]), fp)
         THEN <<files[k]>> \o collectFrom(files, fp, k + 1)
         ELSE collectFrom(files, fp, k + 1)

collectBinlogFiles(e, firstFile) ==
    collectFrom(readDir(e), parseBinlogFile(firstFile), 1)

\* getFirstBinlogName: the first file of the sub directory, or empty (error)
getFirstBinlogName(uuid) ==
    LET files == readDir(EpochOf(uuid)) IN
    IF Len(files) = 0 THEN <<>> ELSE files[1]

\* fileSizeUpdated, with the size os.Stat gave (shrinking, which panics, is
\* reported as -1)
fileSizeUpdatedNever(currSize, latestSize) == 0

fileSizeUpdated(currSize, latestSize) ==
    IF currSize = latestSize THEN 0
    ELSE IF currSize > latestSize THEN 1
    ELSE -1

\* The results of needSwitchSubDir
NoSwitch == [kind |-> "none", nextUUID |-> <<>>, nextBinlogName |-> <<>>]

SwitchError == [kind |-> "error", nextUUID |-> <<>>, nextBinlogName |-> <<>>]

SwitchPanic == [kind |-> "panic", nextUUID |-> <<>>, nextBinlogName |-> <<>>]

NeedReParse == [kind |-> "reParse", nextUUID |-> <<>>, nextBinlogName |-> <<>>]

NeedSwitch(nextUUID, nextBinlogName) ==
    [kind |-> "switch", nextUUID |-> nextUUID, nextBinlogName |-> nextBinlogName]

\* needSwitchSubDir, lines 348-377, with what getFirstBinlogName found in the
\* next sub directory (empty: its error) and the size os.Stat gave
\* (mutant: the size of the latest file is not looked at)
needSwitchSubDirNoSize(uu, currentUUID, firstBinlogName, currSize, latestFileSize) ==
    LET nextUUID == getNextUUID(uu, currentUUID) IN
    IF Len(nextUUID) = 0 THEN NoSwitch
    ELSE IF Len(firstBinlogName) = 0 THEN SwitchError
    ELSE NeedSwitch(nextUUID, firstBinlogName)

needSwitchSubDir(uu, currentUUID, firstBinlogName, currSize, latestFileSize) ==
    LET nextUUID == getNextUUID(uu, currentUUID)
        cmp == fileSizeUpdated(currSize, latestFileSize)
    IN  IF Len(nextUUID) = 0 THEN NoSwitch
        ELSE IF Len(firstBinlogName) = 0 THEN SwitchError
        ELSE IF cmp < 0 THEN SwitchPanic
        ELSE IF cmp > 0 THEN NeedReParse
        ELSE NeedSwitch(nextUUID, firstBinlogName)

\* ------------------------------------------------------------------------
\* BinlogReader: the worker's locals
\* ------------------------------------------------------------------------

\* No worker: the locals at their zero values
NoWorker ==
    [pc |-> "none",          \* the worker's place in parseRelay and its callees
     name |-> <<>>,          \* pos.Name
     pos |-> 0,              \* pos.Pos
     uuid |-> <<>>,          \* currentUUID
     files |-> <<>>,         \* files, as collected by parseDirAsPossible
     i |-> 0,                \* the place in files of relayLogFile
     offset |-> 0,           \* offset, as given to parseFile
     firstParse |-> FALSE,   \* firstParse
     latestPos |-> 0,        \* latestPos
     latestName |-> <<>>,    \* latestName
     cur |-> 0,              \* the decoder's place in the file
     snap |-> <<>>,          \* the sizes the watcher saw when the directory was added
     eofFiles |-> 0,         \* history: the number of files of the sub directory
                             \* when the decoder returned at the end of the file
     exit |-> "none",        \* the cause of the error parseRelay returned
     exitAt |-> "none"]      \* the place the worker left from

CtxCanceled == "context canceled"

\* ctx.Err()
CtxErr == IF ctxDone THEN CtxCanceled ELSE "nil"

\* The current file of the worker: its epoch, its place in the sub directory
CurEpoch == EpochOf(w.uuid)

CurFileNo == FileNo(w.files[w.i])

\* possibleLast: i == len(files)-1
possibleLast == w.i = Len(w.files)

\* current UUID's suffix, which is added to binlog names
CurSuffix == SuffixIntToStr(ParseSuffixForUUID(w.uuid))

\* StartSync's goroutine, lines 101-106: whether the stream is closed with the
\* error parseRelay returned (mutant: the error is not compared with ctx.Err())
attachesErrorAlways(cause) == TRUE

\* (mutant: the error is logged and the stream left alone)
attachesErrorNever(cause) == FALSE

attachesError(cause) == cause # CtxErr

\* The event handed to onEventFunc, as the stream and the history keep it
Item(kind, e, k, idx, name) ==
    [kind |-> kind, ep |-> e, file |-> k, idx |-> idx, name |-> name]

\* utils.GenFakeRotateEvent(relayLogFile, offset, ...), its name rewritten by
\* onEventFunc, lines 262-267
FakeRotateItem ==
    Item("fake", CurEpoch, CurFileNo, 0,
         constructBinlogName(parseBinlogFile(w.files[w.i]), CurSuffix))

\* The event the decoder reads at its place in the current file
CurKind == dirs[CurEpoch][CurFileNo][w.cur - FileHeaderLen + 1]

\* A rotation event read from the file names the next file of the directory
DecodedItem ==
    Item(CurKind, CurEpoch, CurFileNo, w.cur - FileHeaderLen + 1,
         IF CurKind = "rot"
         THEN constructBinlogName(parseBinlogFile(FileName(CurFileNo + 1)), CurSuffix)
         ELSE <<>>)

\* onEventFunc, lines 259-282: latestPos after an event that ends at logPos
\* (mutant: the format description event moves latestPos as well)
onEventLatestPosAll(kind, logPos, latestPos) == logPos

onEventLatestPos(kind, logPos, latestPos) ==
    IF kind = "fde" THEN latestPos ELSE logPos

IsDecoded(item) == item.kind \in {"fde", "ev", "rot"}

SameFile(a, b) == a.kind # "none" /\ b.kind # "none" /\ a.ep = b.ep /\ a.file = b.file

\* s.ch <- e, with the history
Send(item) ==
    /\ ch < StreamCap
    /\ ch' = ch + 1
    /\ lastSent' = IF IsDecoded(item) THEN item ELSE lastSent
    /\ prevSent' = IF IsDecoded(item) THEN lastSent ELSE prevSent
    /\ lastFake' = IF IsDecoded(item) THEN lastFake
                   ELSE [item |-> item,
                         n |-> IF SameFile(lastFake.item, item) THEN 2 ELSE 1]

NoSend == UNCHANGED <<ch, lastSent, prevSent, lastFake>>

\* the select of onEventFunc, lines 284-287
\* (mutant: the send does not watch ctx.Done())
SelectSendNoCancel(item) == Send(item)

SelectSend(item) ==
    \/ Send(item)
    \/ ctxDone /\ NoSend

WorkerFrame ==
    UNCHANGED <<index, dirs, running, uuids, ctxDone, parserStopped, callerPc, call,
                notRdrVars>>

\* A step of the worker that touches its locals only
Local == WorkerFrame /\ NoSend /\ UNCHANGED <<wg, streamErr>>

\* parseRelay returns an error of this cause: StartSync's goroutine ends
Exit(cause) ==
    /\ w' = [NoWorker EXCEPT !.pc = "done", !.exit = cause, !.exitAt = w.pc]
    /\ wg' = wg - 1
    /\ streamErr' = IF attachesError(cause) THEN cause ELSE streamErr
    /\ WorkerFrame
    /\ NoSend

\* parseFile returns needReParse: parseFileAsPossible parses the file again
ReParse ==
    w' = [w EXCEPT !.pc = "parseFileAsPossible", !.cur = 0, !.snap = <<>>,
                   !.eofFiles = 0]

\* parseFile returns neither needSwitch nor needReParse: parseDirAsPossible
\* goes on with the next file of its list, lines 197-205
\* (mutant: firstParse is not set to false after the call, line 197)
NextFileFirstParse ==
    w' = [w EXCEPT !.pc = "parseFiles", !.firstParse = TRUE, !.cur = 0,
                   !.snap = <<>>, !.eofFiles = 0,
                   !.latestName = w.files[w.i], !.i = w.i + 1]

NextFile ==
    w' = [w EXCEPT !.pc = "parseFiles", !.firstParse = FALSE, !.cur = 0,
                   !.snap = <<>>, !.eofFiles = 0,
                   !.latestName = w.files[w.i], !.i = w.i + 1]

\* ------------------------------------------------------------------------
\* BinlogReader: the worker's steps
\* ------------------------------------------------------------------------

\* parseRelay, lines 121-127, and parseDirAsPossible, lines 154-160
WorkerParseRelay ==
    /\ w.pc = "parseRelay"
    /\ IF ctxDone THEN Exit(CtxCanceled)
       ELSE LET x == extractPos(uuids, [name |-> w.name, pos |-> w.pos]) IN
            IF x.err THEN Exit("position not found")
            ELSE /\ w' = [w EXCEPT !.pc = "parseDirAsPossible", !.uuid = x.uuid,
                                   !.name = x.realPos.name, !.pos = x.realPos.pos,
                                   !.firstParse = TRUE]
                 /\ Local

\* parseDirAsPossible, lines 162-181: the directory is listed
WorkerCollectFiles ==
    /\ w.pc = "parseDirAsPossible"
    /\ IF ctxDone THEN Exit(CtxCanceled)
       ELSE LET files == collectBinlogFiles(CurEpoch, w.name) IN
            IF Len(files) = 0 THEN Exit("no relay log files match pos")
            ELSE /\ w' = [w EXCEPT !.pc = "parseFiles", !.files = files, !.i = 1,
                                   !.latestPos = 0, !.latestName = <<>>,
                                   !.offset = w.pos]
                 /\ Local

\* parseDirAsPossible, lines 182-196 and 208-210, and parseFileAsPossible,
\* line 219
WorkerParseFiles ==
    /\ w.pc = "parseFiles"
    /\ IF w.i > Len(w.files)
       THEN /\ w' = [w EXCEPT !.pc = "parseDirAsPossible", !.pos = w.latestPos,
                              !.name = w.latestName, !.files = <<>>, !.i = 0,
                              !.offset = 0, !.latestPos = 0, !.latestName = <<>>]
            /\ Local
       ELSE IF ctxDone THEN Exit(CtxCanceled)
       ELSE IF w.i = 1 /\ ~HasSuffix(w.files[1], w.name)
            THEN Exit("the first relay log not match the start pos")
       ELSE /\ w' = [w EXCEPT !.pc = "parseFileAsPossible",
                              !.offset = IF w.i = 1 THEN w.offset ELSE FileHeaderLen,
                              !.firstParse = IF w.i = 1 THEN w.firstParse ELSE TRUE,
                              !.latestPos = IF w.i = 1 THEN w.offset ELSE FileHeaderLen]
            /\ Local

\* parseFileAsPossible, lines 220-226, and parseFile, lines 241-294
WorkerParseFile ==
    /\ w.pc = "parseFileAsPossible"
    /\ IF ctxDone THEN Exit(CtxCanceled)
       ELSE /\ w' = [w EXCEPT !.pc = IF w.firstParse THEN "sendFakeRotate" ELSE "ParseFile",
                              !.offset = w.latestPos, !.cur = w.latestPos]
            /\ Local

\* parseFile, lines 294-305: the fake rotation event goes through onEventFunc
WorkerSendFakeRotate ==
    /\ w.pc = "sendFakeRotate"
    /\ SelectSend(FakeRotateItem)
    /\ w' = [w EXCEPT !.pc = "ParseFile", !.firstParse = FALSE]
    /\ WorkerFrame
    /\ UNCHANGED <<wg, streamErr>>

\* parser.ParseFile, line 307: the decoder reads the next event and hands it to
\* onEventFunc, lines 249-282; it returns at the end of the file and when it
\* was stopped
WorkerDecode ==
    /\ w.pc = "ParseFile"
    /\ IF parserStopped \/ w.cur >= FileSize(CurEpoch, CurFileNo)
       THEN w' = [w EXCEPT !.pc = "parsed", !.eofFiles = Len(dirs[CurEpoch])]
       ELSE IF CurKind = "filler"
       THEN w' = [w EXCEPT !.cur = w.cur + 1]
       ELSE w' = [w EXCEPT !.pc = "onEventSend",
                           !.latestPos = onEventLatestPos(CurKind, w.cur + 1, w.latestPos)]
    /\ Local

\* onEventFunc, lines 284-288
WorkerSendEvent ==
    /\ w.pc = "onEventSend"
    /\ SelectSend(DecodedItem)
    /\ w' = [w EXCEPT !.pc = "ParseFile", !.cur = w.cur + 1]
    /\ WorkerFrame
    /\ UNCHANGED <<wg, streamErr>>

\* parseRelay, lines 135-148: the position in the next sub directory
SwitchPos(nextUUID, nextBinlogName) ==
    [name |-> constructBinlogName(parseBinlogFile(nextBinlogName),
                                  SuffixIntToStr(ParseSuffixForUUID(nextUUID))),
     pos |-> FileHeaderLen]

\* parseFile, lines 316-331, with needSwitchSubDir, lines 348-377
WorkerNeedSwitch ==
    /\ w.pc = "parsed"
    /\ IF ~possibleLast THEN NextFile /\ Local
       ELSE LET nextUUID == getNextUUID(uuids, w.uuid)
                d == needSwitchSubDir(uuids, w.uuid,
                         IF Len(nextUUID) = 0 THEN <<>> ELSE getFirstBinlogName(nextUUID),
                         FileSize(CurEpoch, CurFileNo), w.latestPos)
            IN  IF d.kind = "error" THEN Exit("binlog files in next dir not found")
                ELSE IF d.kind = "panic" THEN Exit("file size become smaller")
                ELSE IF d.kind = "reParse" THEN ReParse /\ Local
                ELSE IF d.kind = "switch"
                THEN /\ w' = [NoWorker EXCEPT
                                 !.pc = "parseRelay",
                                 !.name = SwitchPos(d.nextUUID, d.nextBinlogName).name,
                                 !.pos = SwitchPos(d.nextUUID, d.nextBinlogName).pos]
                     /\ Local
                ELSE w' = [w EXCEPT !.pc = "relaySubDirUpdated"] /\ Local

\* relaySubDirUpdated, lines 384-458: the directory is added to a new watcher
\* and the goroutine that waits for its events is started
WorkerWatchAdd ==
    /\ w.pc = "relaySubDirUpdated"
    /\ w' = [w EXCEPT !.pc = "watchCheckSize",
                      !.snap = [k \in 1..Len(dirs[CurEpoch]) |-> FileSize(CurEpoch, k)]]
    /\ Local

\* relaySubDirUpdated, lines 460-469
WorkerWatchCheckSize ==
    /\ w.pc = "watchCheckSize"
    /\ LET cmp == fileSizeUpdated(FileSize(CurEpoch, CurFileNo), w.latestPos) IN
       IF cmp < 0 THEN Exit("file size become smaller")
       ELSE IF cmp > 0 THEN ReParse /\ Local
       ELSE w' = [w EXCEPT !.pc = "watchWait"] /\ Local

\* The files of the watched directory that were created or modified since the
\* watcher added it
Changed ==
    {k \in 1..Len(dirs[CurEpoch]) :
        k > Len(w.snap) \/ FileSize(CurEpoch, k) # w.snap[k]}

\* relaySubDirUpdated, lines 407-457 and 471-472: the goroutine hands over the
\* path of a created or modified relay log file, or the context's error
WorkerWatchResult ==
    /\ w.pc = "watchWait"
    /\ \/ ctxDone /\ Exit(CtxCanceled)
       \/ \E k \in Changed :
            /\ IF HasSuffix(FileName(k), w.files[w.i]) THEN ReParse ELSE NextFile
            /\ Local

\* parseFile, lines 307-314: parser.ParseFile fails on an event of the file
\* with an error that is no EOF
WorkerDecodeError ==
    /\ w.pc = "ParseFile"
    /\ ~parserStopped
    /\ w.cur < FileSize(CurEpoch, CurFileNo)
    /\ Exit("parse binlog file error")

\* relaySubDirUpdated, lines 416-428: the watcher reports an error
WorkerWatchError ==
    /\ w.pc = "watchWait"
    /\ Exit("watcher error")

\* The steps the worker takes by itself
WorkerStep ==
    \/ WorkerParseRelay
    \/ WorkerCollectFiles
    \/ WorkerParseFiles
    \/ WorkerParseFile
    \/ WorkerSendFakeRotate
    \/ WorkerDecode
    \/ WorkerSendEvent
    \/ WorkerNeedSwitch
    \/ WorkerWatchAdd
    \/ WorkerWatchCheckSize
    \/ WorkerWatchResult

\* ------------------------------------------------------------------------
\* BinlogReader: the calls
\* ------------------------------------------------------------------------

\* The positions StartSync is called with: no file name, the first file with
\* no UUID suffix, the first file of the first sub directory
StartNames ==
    {EmptyName,
     constructBinlogFilename(BaseName, <<DigitStrs[1]>>),
     constructBinlogName([baseName |-> BaseName, seq |-> <<DigitStrs[1]>>],
                         <<DigitStrs[1]>>)}

\* StartSync, lines 79-90: the error it returns, or "ok"
\* (mutant: the running flag is not checked)
StartSyncResultNoRunning(name) ==
    IF name = EmptyName THEN "ErrBinlogFileNotSpecified"
    ELSE IF index = NoIndex THEN "updateUUIDs failed"
    ELSE "ok"

StartSyncResult(name) ==
    IF name = EmptyName THEN "ErrBinlogFileNotSpecified"
    ELSE IF running THEN "ErrReaderRunning"
    ELSE IF index = NoIndex THEN "updateUUIDs failed"
    ELSE "ok"

\* StartSync
StartSync(name) ==
    /\ callerPc = "idle"
    /\ call' = [op |-> "StartSync", noName |-> name = EmptyName,
                ret |-> StartSyncResult(name)]
    /\ IF StartSyncResult(name) = "ok"
       THEN /\ uuids' = index
            /\ running' = TRUE
            /\ ch' = 0
            /\ streamErr' = "none"
            /\ wg' = wg + 1
            /\ w' = [NoWorker EXCEPT !.pc = "parseRelay", !.name = name,
                                     !.pos = FileHeaderLen]
            /\ lastSent' = NoSent
            /\ prevSent' = NoSent
            /\ lastFake' = NoFake
       ELSE UNCHANGED <<uuids, running, ch, streamErr, wg, w, lastSent, prevSent,
                        lastFake>>
    /\ UNCHANGED <<index, dirs, ctxDone, parserStopped, callerPc, notRdrVars>>

\* Close, lines 588-590: running is cleared and the context cancelled
CloseBegin ==
    /\ callerPc = "idle"
    /\ running' = FALSE
    /\ ctxDone' = TRUE
    /\ callerPc' = "stopping"
    /\ call' = [op |-> "Close", noName |-> FALSE, ret |-> "waiting"]
    /\ UNCHANGED <<index, dirs, uuids, parserStopped, wg, w, ch, streamErr,
                   lastSent, prevSent, lastFake, notRdrVars>>

\* Close, line 591: r.parser.Stop(), after which Close is at wg.Wait()
CloseStopParser ==
    /\ callerPc = "stopping"
    /\ parserStopped' = TRUE
    /\ callerPc' = "closing"
    /\ UNCHANGED <<index, dirs, running, uuids, ctxDone, wg, call, w, ch, streamErr,
                   lastSent, prevSent, lastFake, notRdrVars>>

\* wg.Wait() returns (mutant: Close does not wait)
WaitReturnsAlways == TRUE

WaitReturns == wg = 0

\* Close, lines 592-594
CloseReturn ==
    /\ callerPc = "closing"
    /\ WaitReturns
    /\ callerPc' = "idle"
    /\ call' = [call EXCEPT !.ret = "nil"]
    /\ UNCHANGED <<index, dirs, running, uuids, ctxDone, parserStopped, wg, w, ch,
                   streamErr, lastSent, prevSent, lastFake, notRdrVars>>

\* ------------------------------------------------------------------------
\* The stream's consumer and the relay writer
\* ------------------------------------------------------------------------

\* LocalStreamer.GetEvent: the consumer takes the next event
ConsumerGetEvent ==
    /\ ch > 0
    /\ ch' = ch - 1
    /\ UNCHANGED <<index, dirs, running, uuids, ctxDone, parserStopped, wg,
                   callerPc, call, w, streamErr, lastSent, prevSent, lastFake, notRdrVars>>

WriterFrame ==
    UNCHANGED <<running, uuids, ctxDone, parserStopped, wg, callerPc, call, w, ch,
                streamErr, lastSent, prevSent, lastFake, notRdrVars>>

\* The number of sub directories the index names
Epochs == IF index = NoIndex THEN 0 ELSE Len(index)

\* The number of events in the files of a sub directory
RECURSIVE EventsIn(_)
EventsIn(files) ==
    IF files = <<>> THEN 0 ELSE Len(Head(files)) + EventsIn(Tail(files))

RECURSIVE EventsInDirs(_)
EventsInDirs(e) ==
    IF e = 0 THEN 0 ELSE EventsIn(dirs[e]) + EventsInDirs(e - 1)

\* The changes the relay writer made so far: one per UUID added to the
\* index, one per file created (with its format description event), one per
\* event appended
Writes == Epochs + EventsInDirs(Len(AllUUIDs))

\* The relay writer meets a new master: a UUID is added to the index
WriterNewEpoch ==
    /\ Writes < MaxWrites
    /\ Epochs < Len(AllUUIDs)
    /\ index' = IF index = NoIndex THEN <<AllUUIDs[1]>>
                ELSE Append(index, AllUUIDs[Len(index) + 1])
    /\ UNCHANGED dirs
    /\ WriterFrame

\* The last file of a sub directory
LastFile(e) == dirs[e][Len(dirs[e])]

\* The relay writer creates the next relay log file of a sub directory, with
\* its format description event
WriterCreateFileWithin(e, limit) ==
    /\ Writes < limit
    /\ e <= Epochs
    /\ Len(dirs[e]) < Len(DigitStrs)
    /\ dirs[e] # <<>> => LastFile(e)[Len(LastFile(e))] = "rot"
    /\ dirs' = [dirs EXCEPT ![e] = Append(@, <<"fde">>)]
    /\ UNCHANGED index
    /\ WriterFrame

WriterCreateFile(e) == WriterCreateFileWithin(e, MaxWrites)

\* The relay writer appends an event to the last file of a sub directory: an
\* event of the master, the rotation event that ends the file, or (at the
\* head of a file only) a filler event with LOG_EVENT_RELAY_LOG_F
WriterAppend(e, kind) ==
    /\ Writes < MaxWrites
    /\ e <= Epochs
    /\ dirs[e] # <<>>
    /\ LastFile(e)[Len(LastFile(e))] # "rot"
    /\ kind = "filler" => LastFile(e)[Len(LastFile(e))] \in {"fde", "filler"}
    /\ dirs' = [dirs EXCEPT ![e][Len(dirs[e])] = Append(@, kind)]
    /\ UNCHANGED index
    /\ WriterFrame

\* A reader that was constructed over a relay directory with this index file
\* and these sub directories
InitReaderWith(idx, ds) ==
    /\ index = idx
    /\ dirs = ds
    /\ running = FALSE
    /\ uuids = <<>>
    /\ ctxDone = FALSE
    /\ parserStopped = FALSE
    /\ wg = 0
    /\ callerPc = "idle"
    /\ call = [op |-> "none", noName |-> FALSE, ret |-> "none"]
    /\ w = NoWorker
    /\ ch = 0
    /\ streamErr = "none"
    /\ lastSent = NoSent
    /\ prevSent = NoSent
    /\ lastFake = NoFake

InitReader == InitReaderWith(NoIndex, [e \in 1..Len(AllUUIDs) |-> <<>>])

\* A relay directory that holds two sub directories when the reader is
\* constructed: the first with a file that ends with its rotation event, the
\* second with its first file
SwitchDirs == << << <<"fde", "rot">> >>, << <<"fde", "ev">> >> >>

\* What the relay writer wrote to make that directory
SwitchWrites == Len(AllUUIDs) + Len(SwitchDirs[1][1]) + Len(SwitchDirs[2][1])

\* The files the relay writer creates after the reader was constructed over
\* that directory
LateWrites == 1

\* ------------------------------------------------------------------------
\* BinlogReader: its pure functions, applied to arguments of their domains
\* ------------------------------------------------------------------------

\* The UUID lists a reader can hold: what the index held when it was read
UUIDLists == {SubSeq(AllUUIDs, 1, n) : n \in 0..Len(AllUUIDs)}

BaseNames == {BaseName, <<"relay-bin">>}

\* The offsets of a position
Offsets == FileHeaderLen..(FileHeaderLen + MaxDelta)

NoCall == [op |-> "none"]

InitFn == fn = NoCall

\* The suffix of the e-th UUID the relay writer uses
SuffixOf(e) == SuffixIntToStr(ParseSuffixForUUID(AllUUIDs[e]))

\* The name of a position: with no UUID suffix (e = 0), or with the suffix of
\* the e-th UUID, as constructBinlogName makes it
PosName(e, base, seq) ==
    IF e = 0 THEN constructBinlogFilename(base, seq)
    ELSE constructBinlogName([baseName |-> base, seq |-> seq], SuffixOf(e))

\* extractPos is applied to a position of a reader that holds the list uu
ApplyExtractPos(uu, e, base, seq, pos) ==
    /\ fn' = [op |-> "extractPos", uuids |-> uu, epoch |-> e, baseName |-> base,
              seq |-> seq, pos |-> pos,
              out |-> extractPos(uu, [name |-> PosName(e, base, seq), pos |-> pos])]
    /\ UNCHANGED <<recVars, rdrVars, lockVars, wt>>

\* The sizes of a file: the offsets, and the size of a file cut to its header
Sizes == Offsets \cup {FileHeaderLen - 1}

\* What getFirstBinlogName finds in a sub directory: nothing, or its first file
FirstNames == {<<>>, FileName(1)}

\* needSwitchSubDir is called by a reader that holds the list uu and is at the
\* end of a file of the c-th UUID
ApplyNeedSwitchSubDir(uu, c, first, currSize, latestSize) ==
    /\ c <= Len(uu)
    /\ fn' = [op |-> "needSwitchSubDir", uuids |-> uu, cur |-> c, first |-> first,
              currSize |-> currSize, latestSize |-> latestSize,
              cmp |-> fileSizeUpdated(currSize, latestSize),
              out |-> needSwitchSubDir(uu, uu[c], first, currSize, latestSize)]
    /\ UNCHANGED <<recVars, rdrVars, lockVars, wt>>

\* ------------------------------------------------------------------------
\* BinlogReader: relaySubDirUpdated and its goroutine
\* ------------------------------------------------------------------------

\* The calls of relaySubDirUpdated that are followed
MaxEpisodes == 3

InitWatch ==
    wt = [pc |-> "idle",        \* the caller: "idle" (not in relaySubDirUpdated),
                                \* "checkSize" (line 461), "waiting" (line 471)
          watcher |-> "none",   \* watcher2: "none", "added", "open", "closed"
          cur |-> "none",       \* the goroutine of this call: "none", "select", "done"
          result |-> "empty",   \* the buffer of the result channel of this call
          ctx |-> FALSE,        \* ctx is cancelled
          old |-> 0,            \* goroutines of returned calls, newCtx cancelled,
                                \* that have not ended yet
          stuck |-> 0,          \* goroutines of returned calls whose newCtx is
                                \* not cancelled
          episodes |-> 0,       \* the calls made
          oldAtStart |-> 0,     \* history: old + stuck when this call was made
          ret |-> "none"]       \* history: what the last call returned with

\* defer cancel(), line 406
\* (mutant: the deferred cancel is missing)
deferCancelMissing == FALSE

deferCancel == TRUE

\* relaySubDirUpdated returns: the deferred cancel() and watcher2.Close() run;
\* the goroutine, if it has not sent yet, is left to end by itself
WtReturn(kind) ==
    wt' = [wt EXCEPT !.pc = "idle", !.watcher = "closed", !.cur = "none",
                     !.result = "empty", !.ret = kind,
                     !.old = IF wt.cur = "select" /\ deferCancel THEN @ + 1 ELSE @,
                     !.stuck = IF wt.cur = "select" /\ ~deferCancel THEN @ + 1 ELSE @]

WatchFrame == UNCHANGED <<recVars, rdrVars, fnVars, lockVars>>

\* lines 384-458: the watcher is made, the directory added, the watcher
\* started and the goroutine spawned
WtEnter ==
    /\ wt.pc = "idle"
    /\ wt.episodes < MaxEpisodes
    /\ wt' = [wt EXCEPT !.pc = "checkSize", !.watcher = "open", !.cur = "select",
                        !.result = "empty", !.episodes = @ + 1,
                        !.oldAtStart = wt.old + wt.stuck, !.ret = "none"]
    /\ WatchFrame

\* lines 388-396: Add or Start fails; the function returns before the
\* deferred Close is registered and before the goroutine is spawned
WtSetupFails(at) ==
    /\ wt.pc = "idle"
    /\ wt.episodes < MaxEpisodes
    /\ wt' = [wt EXCEPT !.watcher = IF at = "Add" THEN "none" ELSE "added",
                        !.episodes = @ + 1, !.oldAtStart = wt.old + wt.stuck,
                        !.ret = "setup error"]
    /\ WatchFrame

\* lines 460-469: the size of the latest file is looked at once more
WtCheckSize(out) ==
    /\ wt.pc = "checkSize"
    /\ IF out = "equal" THEN wt' = [wt EXCEPT !.pc = "waiting"] ELSE WtReturn(out)
    /\ WatchFrame

\* lines 407-457: the goroutine's select takes a case that is ready and sends
\* its one result to the buffered channel
WtGoroutine(kind) ==
    /\ wt.cur = "select"
    /\ kind = "ctx" => wt.ctx
    /\ wt.result = "empty"
    /\ wt' = [wt EXCEPT !.cur = "done", !.result = kind]
    /\ WatchFrame

\* lines 471-472
WtReceive ==
    /\ wt.pc = "waiting"
    /\ wt.result # "empty"
    /\ WtReturn(wt.result)
    /\ WatchFrame

\* Close cancels ctx, line 590
WtCancel ==
    /\ ~wt.ctx
    /\ wt' = [wt EXCEPT !.ctx = TRUE]
    /\ WatchFrame

\* lines 410-415: a goroutine of a returned call takes newCtx.Done(), sends
\* to its own channel and ends
WtOldExit ==
    /\ wt.old > 0
    /\ wt' = [wt EXCEPT !.old = @ - 1]
    /\ WatchFrame

\* ------------------------------------------------------------------------
\* Specifications
\* ------------------------------------------------------------------------
Init ==
    /\ InitRec
    /\ InitReader
    /\ InitFn
    /\ InitLock
    /\ InitWatch

\* The recorder alone
NextRec ==
    \/ \E loc \in Locations : RecReset(loc)
    \/ \E e \in RecEvents : RecUpdate(e)

\* The recorder with the thread that updates it and the thread that reads it
NextLock ==
    \/ \E e \in LockEvents : UpdLock(e)
    \/ \E loc \in LockLocs : RstLock(loc)
    \/ UpdStep
    \/ RstStep
    \/ UpdUnlock
    \/ GetCall
    \/ GetLock
    \/ GetRead
    \/ GetUnlock

\* relaySubDirUpdated with its goroutines, the watcher and the context
NextWatch ==
    \/ WtEnter
    \/ \E at \in {"Add", "Start"} : WtSetupFails(at)
    \/ \E out \in {"grown", "equal", "error", "panic"} : WtCheckSize(out)
    \/ \E kind \in {"path", "error", "ctx"} : WtGoroutine(kind)
    \/ WtReceive
    \/ WtCancel
    \/ WtOldExit

\* The pure functions of the reader
NextFn ==
    \/ \E uu \in UUIDLists, e \in 0..Len(AllUUIDs), base \in BaseNames,
          k \in 1..Len(DigitStrs), pos \in Offsets :
            ApplyExtractPos(uu, e, base, <<DigitStrs[k]>>, pos)
    \/ \E uu \in UUIDLists, c \in 1..Len(AllUUIDs), first \in FirstNames,
          currSize \in Sizes, latestSize \in Offsets :
            ApplyNeedSwitchSubDir(uu, c, first, currSize, latestSize)

\* The reader with its caller, its consumer and the relay writer
Next ==
    \/ \E name \in StartNames : StartSync(name)
    \/ CloseBegin
    \/ CloseStopParser
    \/ CloseReturn
    \/ WorkerParseRelay
    \/ WorkerCollectFiles
    \/ WorkerParseFiles
    \/ WorkerParseFile
    \/ WorkerSendFakeRotate
    \/ WorkerDecode
    \/ WorkerSendEvent
    \/ WorkerNeedSwitch
    \/ WorkerWatchAdd
    \/ WorkerWatchCheckSize
    \/ WorkerWatchResult
    \/ WorkerDecodeError
    \/ WorkerWatchError
    \/ ConsumerGetEvent
    \/ WriterNewEpoch
    \/ \E e \in 1..Len(AllUUIDs) : WriterCreateFile(e)
    \/ \E e \in 1..Len(AllUUIDs), kind \in {"ev", "rot", "filler"} : WriterAppend(e, kind)

InitSwitch ==
    /\ InitRec
    /\ InitReaderWith(AllUUIDs, SwitchDirs)
    /\ InitFn
    /\ InitLock
    /\ InitWatch

\* The reader over the relay directory of InitSwitch, whose writer goes on to
\* create files
NextSwitch ==
    \/ \E name \in StartNames : StartSync(name)
    \/ CloseBegin
    \/ CloseStopParser
    \/ CloseReturn
    \/ WorkerParseRelay
    \/ WorkerCollectFiles
    \/ WorkerParseFiles
    \/ WorkerParseFile
    \/ WorkerSendFakeRotate
    \/ WorkerDecode
    \/ WorkerSendEvent
    \/ WorkerNeedSwitch
    \/ WorkerWatchAdd
    \/ WorkerWatchCheckSize
    \/ WorkerWatchResult
    \/ WorkerDecodeError
    \/ WorkerWatchError
    \/ ConsumerGetEvent
    \/ \E e \in 1..Len(AllUUIDs) : WriterCreateFileWithin(e, SwitchWrites + LateWrites)

vars == <<recVars, rdrVars, fnVars, lockVars, wt>>

SpecSwitch == InitSwitch /\ [][NextSwitch]_vars

SpecRec == Init /\ [][NextRec]_vars

SpecLock == Init /\ [][NextLock]_vars

\* A goroutine whose context is cancelled is scheduled
SpecWatch == Init /\ [][NextWatch]_vars /\ WF_vars(WtOldExit)

SpecFn == Init /\ [][NextFn]_vars

Spec == Init /\ [][Next]_vars

\* The goroutines are scheduled: a worker that can take a step takes one, and
\* a Close whose wait is over returns
FairSpec ==
    Spec /\ WF_vars(WorkerStep) /\ WF_vars(CloseStopParser) /\ WF_vars(CloseReturn)

\* ------------------------------------------------------------------------
\* locationRecorder: properties
\* ------------------------------------------------------------------------

\* C2: after every update, curStartLocation is curEndLocation as it was
\* before that update; for the first update after a reset that is the
\* location given to reset (which reset also stored in txnEndLocation).
C2_StartIsPreviousEnd ==
    lastOp = "update" =>
        /\ curStartLocation = pre.end
        /\ pre.op = "reset" => curStartLocation = pre.txn

C2_Witness ==
    /\ lastOp = "update"
    /\ pre.op = "update"
    /\ curStartLocation # ZeroLocation
    /\ curEndLocation # curStartLocation
    /\ pre.end # pre.txn

\* The event of the last update moves the offset (it passed shouldUpdatePos
\* and is no rotation event)
MovesOffset(e) ==
    /\ e.type \notin NonAdvancingTypes
    /\ ~e.artificial
    /\ e.type # "ROTATE_EVENT"

\* C3 as stated: for any events, the offset of curEndLocation never
\* decreases in an update that keeps the file name, and the file name
\* changes only on a rotation event, the offset becoming FileHeaderLen.
C3_Original ==
    lastOp = "update" =>
        /\ curEndLocation.name = pre.end.name => curEndLocation.pos >= pre.end.pos
        /\ curEndLocation.name # pre.end.name =>
              IsRotate(lastEv) /\ curEndLocation.pos = FileHeaderLen

\* C3 amended: the offset does not decrease in an update that keeps the file
\* name provided the event's log position is not below the recorded offset;
\* the file name changes only on a rotation event, the offset becoming
\* FileHeaderLen.
C3_OffsetMonotoneForOrderedEvents ==
    lastOp = "update" =>
        /\ ( /\ curEndLocation.name = pre.end.name
             /\ MovesOffset(lastEv) => lastEv.logPos >= pre.end.pos )
           => curEndLocation.pos >= pre.end.pos
        /\ curEndLocation.name # pre.end.name =>
              /\ IsRotate(lastEv)
              /\ curEndLocation.name = lastEv.nextName
              /\ curEndLocation.pos = FileHeaderLen

C3_Witness ==
    /\ lastOp = "update"
    /\ pre.op = "update"
    /\ curEndLocation.name = pre.end.name
    /\ pre.end.pos > FileHeaderLen
    /\ curEndLocation.pos > pre.end.pos

\* The event is a rotation event that update() acts on and that names a file
\* other than the one recorded before the update
RotatesAway(e) ==
    /\ IsRotate(e)
    /\ ~e.artificial
    /\ e.nextName # pre.end.name

\* C4 as stated: from a BEGIN query event on, no update changes
\* txnEndLocation until a COMMIT query event, whose update sets it to
\* curEndLocation (no XID event and no other COMMIT in between).
C4_Original ==
    lastOp = "update" =>
        /\ IsBegin(lastEv) => txnEndLocation = pre.txn
        /\ (pre.winAny /\ ~IsXID(lastEv) /\ ~IsCommit(lastEv)) =>
              txnEndLocation = pre.txn
        /\ (pre.winAny /\ IsCommit(lastEv)) => txnEndLocation = curEndLocation

\* C4 amended: the same for a BEGIN and a COMMIT without the artificial
\* flag, when no rotation event that names another file comes in between.
C4_TxnEndOnlyAtCommit ==
    lastOp = "update" =>
        /\ IsBegin(lastEv) => txnEndLocation = pre.txn
        /\ (pre.winAdv /\ ~IsXID(lastEv) /\ ~IsCommit(lastEv) /\ ~RotatesAway(lastEv)) =>
              txnEndLocation = pre.txn
        /\ (pre.winAdv /\ IsCommit(lastEv) /\ ~lastEv.artificial) =>
              txnEndLocation = curEndLocation

C4_Witness ==
    /\ lastOp = "update"
    /\ pre.op = "update"
    /\ pre.winAdv
    /\ IsCommit(lastEv)
    /\ ~lastEv.artificial
    /\ pre.end # pre.txn
    /\ txnEndLocation # pre.txn
    /\ txnEndLocation = curEndLocation

\* C5 as stated: after the update of any XID event, txnEndLocation equals
\* curEndLocation, whose offset and GTID set are the event's, and inDML is
\* false.
C5_Original ==
    (lastOp = "update" /\ IsXID(lastEv)) =>
        /\ txnEndLocation = curEndLocation
        /\ curEndLocation.pos = lastEv.logPos
        /\ curEndLocation.gset = lastEv.gset
        /\ ~inDML

\* C5 amended: the same for every XID event without the artificial flag.
C5_XIDEndsTransaction ==
    (lastOp = "update" /\ IsXID(lastEv) /\ ~lastEv.artificial) =>
        /\ txnEndLocation = curEndLocation
        /\ curEndLocation.pos = lastEv.logPos
        /\ curEndLocation.gset = lastEv.gset
        /\ ~inDML

C5_Witness ==
    /\ lastOp = "update"
    /\ IsXID(lastEv)
    /\ ~lastEv.artificial
    /\ pre.inDML
    /\ ~inDML
    /\ txnEndLocation # pre.txn
    /\ curEndLocation.gset # pre.end.gset

\* C6 as stated: an update changes txnEndLocation only if its event is an
\* XID event or a COMMIT query event.
C6_Original ==
    (lastOp = "update" /\ txnEndLocation # pre.txn) =>
        IsXID(lastEv) \/ IsCommit(lastEv)

\* C6 amended: an update changes txnEndLocation only if its event has no
\* artificial flag and is an XID event, a rotation event that names another
\* file, a COMMIT query event, or a query event other than BEGIN fed while
\* inDML is false.
C6_TxnEndChangesOnlyAtBoundary ==
    (lastOp = "update" /\ txnEndLocation # pre.txn) =>
        /\ ~lastEv.artificial
        /\ \/ IsXID(lastEv)
           \/ IsRotate(lastEv) /\ lastEv.nextName # pre.end.name
           \/ IsCommit(lastEv)
           \/ lastEv.type = "QUERY_EVENT" /\ ~IsBegin(lastEv) /\ ~pre.inDML

C6_Witness ==
    /\ lastOp = "update"
    /\ txnEndLocation # pre.txn
    /\ IsQuery(lastEv, <<"ALTER">>)
    /\ pre.op = "update"

\* ------------------------------------------------------------------------
\* BinlogReader: properties
\* ------------------------------------------------------------------------

\* a is before b in (epoch index, file sequence, offset) order
Before(a, b) ==
    \/ a.ep < b.ep
    \/ a.ep = b.ep /\ a.file < b.file
    \/ a.ep = b.ep /\ a.file = b.file /\ a.idx < b.idx

\* The events on disk that are no filler events, as the stream would carry them
DiskEvents ==
    {[ep |-> e, file |-> k, idx |-> i] :
        e \in 1..Len(AllUUIDs), k \in 1..Len(DigitStrs), i \in 1..MaxWrites}

OnDisk(x) ==
    /\ x.file <= Len(dirs[x.ep])
    /\ x.idx <= Len(dirs[x.ep][x.file])
    /\ dirs[x.ep][x.file][x.idx] # "filler"

\* C1 as stated: while the reader is neither cancelled nor failed, the
\* decoded events go to the stream in strictly increasing (epoch index, file
\* sequence, offset) order, so none is sent twice, and no event on disk that
\* is not a filler event lies between two events sent one after the other,
\* so none is skipped.
C1_ExactlyOnceInOrder ==
    (~ctxDone /\ streamErr = "none" /\ prevSent # NoSent) =>
        /\ Before(prevSent, lastSent)
        /\ \A x \in DiskEvents :
              OnDisk(x) => ~(Before(prevSent, x) /\ Before(x, lastSent))

\* C7: a StartSync with an empty file name returns the position-required
\* error, one with a file name while running is set returns the
\* already-running error, and a StartSync that returns either error leaves
\* the running flag, the UUID list, the worker count and the worker as they
\* were.
C7_StartSyncRejects ==
    [][(call'.op = "StartSync" /\ (call' # call \/ wg' > wg)) =>
          /\ call'.noName => call'.ret = "ErrBinlogFileNotSpecified"
          /\ (~call'.noName /\ running) => call'.ret = "ErrReaderRunning"
          /\ call'.ret \in {"ErrBinlogFileNotSpecified", "ErrReaderRunning"} =>
                UNCHANGED <<running, uuids, wg, w, ch, streamErr>>]_vars

C7_Witness ==
    /\ call.op = "StartSync"
    /\ call.ret = "ErrReaderRunning"
    /\ running
    /\ wg = 1
    /\ uuids # index

\* C8: with StartSync and Close called one at a time, at most one worker
\* exists at any moment: the worker count is 0 or 1, and it is 1 exactly
\* while the worker StartSync started last has not ended.
C8_AtMostOneWorker ==
    /\ wg \in {0, 1}
    /\ wg = 1 <=> w.pc \notin {"none", "done"}

C8_Witness ==
    /\ wg = 1
    /\ ctxDone
    /\ call.op = "StartSync"
    /\ call.ret = "ok"
    /\ w.pc = "parseRelay"

\* Close has returned and no call was made since
Closed == call.op = "Close" /\ call.ret = "nil"

\* C9: a Close that was called returns; once it has returned the worker has
\* ended, the running flag is false, and no event is sent to the stream.
C9_CloseReturns ==
    /\ (callerPc # "idle") ~> (callerPc = "idle")
    /\ [](Closed => (wg = 0 /\ ~running /\ w.pc \in {"none", "done"}))
    /\ [][Closed => ch' <= ch]_vars

C9_Witness ==
    /\ callerPc = "closing"
    /\ w.pc = "onEventSend"
    /\ ch = StreamCap

Failed == w.pc = "done" /\ w.exit # CtxCanceled

\* C11: a worker that ended with an error other than the context's left
\* that error on the stream; an error on a stream is never replaced by
\* another; a worker that ended takes no further step (none starts before
\* the next StartSync that succeeds); and no event is sent to a stream that
\* carries an error.
C11_ErrorEndsStream ==
    /\ [](Failed => streamErr = w.exit)
    /\ [][(streamErr # "none" /\ streamErr' # streamErr) =>
             (streamErr' = "none" /\ wg' > wg)]_vars
    /\ [][(w.pc = "done" /\ w' # w) => wg' > wg]_vars
    /\ [][(streamErr # "none" /\ streamErr' = streamErr) => ch' <= ch]_vars

C11_Witness ==
    /\ Failed
    /\ ~ctxDone
    /\ w.exit = "watcher error"
    /\ streamErr = "watcher error"
    /\ lastSent # NoSent
    /\ ch = 0

\* The result extractPos is to give for a name that carries the suffix of a
\* UUID of the list: that UUID, its suffix, the name without the suffix
\* and the offset as given
Decoded ==
    [err |-> FALSE, uuid |-> AllUUIDs[fn.epoch], suffix |-> SuffixOf(fn.epoch),
     realPos |-> [name |-> constructBinlogFilename(fn.baseName, fn.seq),
                  pos |-> fn.pos]]

\* C12 as stated: a name built by constructBinlogName with the suffix of a
\* UUID of the list decodes to that UUID, that suffix and the real name with
\* the offset unchanged; a name with no suffix decodes to the last UUID of
\* the list with an empty suffix and the position as given.
C12_Original ==
    (fn.op = "extractPos" /\ fn.uuids # <<>>) =>
        /\ fn.epoch \in 1..Len(fn.uuids) => fn.out = Decoded
        /\ fn.epoch = 0 =>
              fn.out = [err |-> FALSE, uuid |-> fn.uuids[Len(fn.uuids)],
                        suffix |-> <<>>,
                        realPos |-> [name |-> PosName(0, fn.baseName, fn.seq),
                                     pos |-> fn.pos]]

\* C12 amended: the same, but a name with no suffix decodes to the last
\* UUID of the list together with the suffix of that UUID.
C12_PositionRoundTrip ==
    (fn.op = "extractPos" /\ fn.uuids # <<>>) =>
        /\ fn.epoch \in 1..Len(fn.uuids) => fn.out = Decoded
        /\ fn.epoch = 0 =>
              fn.out = [err |-> FALSE, uuid |-> fn.uuids[Len(fn.uuids)],
                        suffix |-> SuffixOf(Len(fn.uuids)),
                        realPos |-> [name |-> PosName(0, fn.baseName, fn.seq),
                                     pos |-> fn.pos]]

C12_Witness ==
    /\ fn.op = "extractPos"
    /\ Len(fn.uuids) = 2
    /\ fn.epoch = 1
    /\ fn.pos > FileHeaderLen
    /\ fn.seq # <<DigitStrs[1]>>
    /\ fn.out.uuid = AllUUIDs[1]
    /\ fn.out.realPos.name = constructBinlogFilename(fn.baseName, fn.seq)

\* The place of the worker's UUID in the reader's list
CurIndex == CHOOSE i \in 1..Len(uuids) : uuids[i] = w.uuid

\* The decoder stopped at the end of the last file of the worker's sub
\* directory, and the file has the size it had then
AtEndOfLastFile ==
    /\ w.pc = "parsed"
    /\ CurFileNo = Len(dirs[CurEpoch])
    /\ w.cur = FileSize(CurEpoch, CurFileNo)

\* The position of the first file of the sub directory of the UUID after
\* the worker's
NextEpochPos ==
    [name |-> constructBinlogName(parseBinlogFile(FileName(1)),
                                  SuffixIntToStr(ParseSuffixForUUID(uuids[CurIndex + 1]))),
     pos |-> FileHeaderLen]

\* C13 as stated: a worker at the end of the last file of its sub
\* directory, the file's size unchanged, with a next UUID in the list whose
\* sub directory has a first file, goes on at the position of that file
\* (its name with the suffix of the next UUID, offset 4); a worker that
\* switches does so to the position of the UUID that follows its own in the
\* list, to which extractPos binds it; and the first file parsed after
\* binding is the one the position names, from the position's offset.
C13_SwitchOver ==
    /\ [][(AtEndOfLastFile /\ ~ctxDone /\ w' # w /\ CurIndex < Len(uuids)
              /\ dirs[EpochOf(uuids[CurIndex + 1])] # <<>>) =>
             (w'.pc = "parseRelay" /\ w'.name = NextEpochPos.name
                /\ w'.pos = NextEpochPos.pos)]_vars
    /\ [][(w.pc = "parsed" /\ w'.pc = "parseRelay") =>
             /\ CurIndex < Len(uuids)
             /\ w'.name = NextEpochPos.name
             /\ w'.pos = FileHeaderLen
             /\ extractPos(uuids, [name |-> w'.name, pos |-> w'.pos]).uuid
                   = uuids[CurIndex + 1]]_vars
    /\ [][(w.pc = "parseRelay" /\ w'.pc = "parseDirAsPossible") =>
             w'.uuid = extractPos(uuids, [name |-> w.name, pos |-> w.pos]).uuid]_vars
    /\ []((w.pc = "sendFakeRotate" /\ w.i = 1) =>
             (HasSuffix(w.files[1], w.name) /\ w.cur = w.pos))

\* The worker is at the last file of its list and its UUID is the only one
\* of the reader's list
AtLastFileOfOnlyEpoch ==
    /\ w.pc \in {"parsed", "relaySubDirUpdated", "watchCheckSize"}
    /\ possibleLast
    /\ Len(uuids) = 1

\* The worker's file is larger than the offset the worker recorded
Grown == FileSize(CurEpoch, CurFileNo) > w.latestPos

\* C14: between the decoder's return at the end of the last file of the only
\* UUID and the wait for the watcher, the worker stays with its file and its
\* recorded offset and never goes back to parseRelay; when the size check of
\* relaySubDirUpdated finds the file larger than the recorded offset the
\* file is parsed again, with no fake rotation event; and the decoder is
\* then started at the recorded latestPos, whatever offset the file was
\* parsed from before.
C14_GrowthRace ==
    /\ [][(AtLastFileOfOnlyEpoch /\ w' # w) =>
             /\ w'.pc \in {"relaySubDirUpdated", "watchCheckSize", "watchWait",
                           "parseFileAsPossible"}
             /\ w'.uuid = w.uuid
             /\ w'.files = w.files
             /\ w'.i = w.i
             /\ w'.latestPos = w.latestPos]_vars
    /\ [][(w.pc = "watchCheckSize" /\ w' # w /\ Grown) =>
             (w'.pc = "parseFileAsPossible" /\ ~w'.firstParse)]_vars
    /\ [][(w.pc = "parseFileAsPossible" /\ w' # w /\ ~w.firstParse /\ ~ctxDone) =>
             /\ w'.pc = "ParseFile"
             /\ w'.cur = w.latestPos
             /\ w'.offset = w.latestPos
             /\ (w.latestPos # w.offset => w'.cur # w.offset)
             /\ (w.latestPos # FileHeaderLen => w'.cur # FileHeaderLen)]_vars

\* The file grew after the decoder's return and before the wait, and events
\* of the file moved the recorded offset from the one the file was entered at
C14_Witness ==
    /\ AtLastFileOfOnlyEpoch
    /\ w.pc = "watchCheckSize"
    /\ Grown
    /\ w.cur < FileSize(CurEpoch, CurFileNo)
    /\ w.latestPos = w.cur
    /\ w.latestPos > w.offset

\* The name of the worker's file with the suffix of the worker's UUID
CurNameWithSuffix == constructBinlogName(parseBinlogFile(w.files[w.i]), CurSuffix)

\* The step hands a decoded event to the stream
SendsDecoded == w.pc = "onEventSend" /\ ch' = ch + 1

\* The step hands the fake rotation event to the stream
SendsFake == w.pc = "sendFakeRotate" /\ ch' = ch + 1

\* The fake rotation event sent last is the only one of the worker's file
\* and names it with the suffix of the worker's UUID
OneFakeOfCurFile ==
    /\ lastFake.n = 1
    /\ lastFake.item.ep = CurEpoch
    /\ lastFake.item.file = CurFileNo
    /\ lastFake.item.name = CurNameWithSuffix

\* C15 as stated: every decoded event handed to the stream follows exactly
\* one fake rotation event of its file, which names the file with the suffix
\* of the worker's UUID, and no file has a second fake rotation event.
C15_Original ==
    /\ [][SendsDecoded => OneFakeOfCurFile]_vars
    /\ [][SendsFake => (lastFake'.n = 1 /\ lastFake'.item.name = CurNameWithSuffix)]_vars
    /\ [](lastFake.n <= 1)

\* C15: as long as the context is not cancelled, every decoded event handed
\* to the stream follows exactly one fake rotation event of its file, which
\* names the file with the suffix of the worker's UUID; cancelled or not, a
\* fake rotation event that is sent names the worker's file with that suffix
\* and no file has a second one, however often the file is parsed again or
\* the directory listed again.
C15_FakeRotationOncePerFile ==
    /\ [][(SendsDecoded /\ ~ctxDone) => OneFakeOfCurFile]_vars
    /\ [][SendsFake => (lastFake'.n = 1 /\ lastFake'.item.name = CurNameWithSuffix)]_vars
    /\ [](lastFake.n <= 1)

\* After the directory was listed again from a recorded position and its
\* first file parsed again, the first event of the next file is handed over,
\* with one fake rotation event of that file before it
C15_Witness ==
    /\ w.pc = "onEventSend"
    /\ ~ctxDone
    /\ w.i > 1
    /\ w.pos > FileHeaderLen
    /\ OneFakeOfCurFile
    /\ lastSent.kind = "rot"
    /\ lastSent.file < CurFileNo

\* The call of needSwitchSubDir: the reader's list has a UUID after the
\* current one, and that UUID's sub directory has a first file
FnNextExists == fn.cur < Len(fn.uuids)

FnHasFirst == fn.first # <<>>

\* C16 as stated: the result of needSwitchSubDir is given by whether a next
\* UUID exists and by the comparison of the sizes alone: no next UUID, no
\* switch and no re-parse; a next UUID and equal sizes, switch; a next UUID
\* and a larger file, re-parse; a smaller file is fatal.
C16_Original ==
    fn.op = "needSwitchSubDir" =>
        /\ ~FnNextExists => fn.out.kind = "none"
        /\ (FnNextExists /\ fn.currSize = fn.latestSize) => fn.out.kind = "switch"
        /\ (FnNextExists /\ fn.currSize > fn.latestSize) => fn.out.kind = "reParse"
        /\ (FnNextExists /\ fn.currSize < fn.latestSize) => fn.out.kind \in {"panic", "error"}
        /\ fn.currSize < fn.latestSize => fn.cmp = -1

\* C16: with no next UUID in the list needSwitchSubDir reports no switch and
\* no re-parse, whatever the sizes; with a next UUID whose sub directory has
\* no first file it returns an error, whatever the sizes; with a next UUID
\* whose sub directory has a first file, equal sizes give the switch to that
\* UUID and file, a larger file gives re-parse and no switch, and a smaller
\* file ends the program; fileSizeUpdated gives 0 for equal sizes, 1 for a
\* larger file and ends the program for a smaller one.
C16_SwitchDecision ==
    fn.op = "needSwitchSubDir" =>
        /\ ~FnNextExists => fn.out = NoSwitch
        /\ (FnNextExists /\ ~FnHasFirst) => fn.out.kind = "error"
        /\ (FnNextExists /\ FnHasFirst /\ fn.currSize = fn.latestSize) =>
              fn.out = NeedSwitch(fn.uuids[fn.cur + 1], fn.first)
        /\ (FnNextExists /\ FnHasFirst /\ fn.currSize > fn.latestSize) =>
              fn.out.kind = "reParse"
        /\ (FnNextExists /\ FnHasFirst /\ fn.currSize < fn.latestSize) =>
              fn.out.kind = "panic"
        /\ fn.cmp = (IF fn.currSize = fn.latestSize THEN 0
                     ELSE IF fn.currSize > fn.latestSize THEN 1 ELSE -1)

\* A next UUID with a first file, and a file larger than recorded
C16_Witness ==
    /\ fn.op = "needSwitchSubDir"
    /\ FnNextExists
    /\ FnHasFirst
    /\ fn.currSize > fn.latestSize
    /\ fn.latestSize > FileHeaderLen
    /\ fn.out.kind = "reParse"

\* C17: after reset() the three locations are one and the same location and
\* inDML is what it was before the call; and a query event other than BEGIN
\* and COMMIT that is the first event after a reset() made while inDML was
\* true leaves txnEndLocation as the reset() set it.
C17_ResetKeepsInDML ==
    /\ lastOp = "reset" =>
          /\ curStartLocation = curEndLocation
          /\ txnEndLocation = curEndLocation
          /\ curEndLocation \in Locations
          /\ inDML = pre.inDML
    /\ (lastOp = "update" /\ pre.op = "reset" /\ pre.inDML
           /\ lastEv.type = "QUERY_EVENT"
           /\ TrimSpace(lastEv.query) \notin {<<"BEGIN">>, <<"COMMIT">>}) =>
          (txnEndLocation = pre.txn /\ inDML)

\* A query event that moved curEndLocation was fed right after a reset() made
\* while inDML was true
C17_Witness ==
    /\ lastOp = "update"
    /\ pre.op = "reset"
    /\ pre.inDML
    /\ lastEv.type = "QUERY_EVENT"
    /\ ~lastEv.artificial
    /\ TrimSpace(lastEv.query) = <<"ALTER">>
    /\ curEndLocation # pre.end
    /\ txnEndLocation = pre.txn
    /\ pre.txn = pre.end

\* C18: update() with a format description, heartbeat, ignorable, previous
\* GTIDs or MariaDB GTID list event, or with an event of any type that has
\* LOG_EVENT_ARTIFICIAL_F set, sets curStartLocation to the curEndLocation
\* of before the call and leaves curEndLocation, txnEndLocation and inDML as
\* they were.
C18_NonAdvancingEvents ==
    (lastOp = "update"
        /\ (lastEv.artificial
             \/ lastEv.type \in {"FORMAT_DESCRIPTION_EVENT", "HEARTBEAT_EVENT",
                                 "IGNORABLE_EVENT", "PREVIOUS_GTIDS_EVENT",
                                 "MARIADB_GTID_LIST_EVENT"})) =>
        /\ curStartLocation = pre.end
        /\ curEndLocation = pre.end
        /\ txnEndLocation = pre.txn
        /\ inDML = pre.inDML

\* An artificial XID event with a log position and a GTID set of its own was
\* fed inside a transaction whose start and end locations differed
C18_Witness ==
    /\ lastOp = "update"
    /\ lastEv.type = "XID_EVENT"
    /\ lastEv.artificial
    /\ lastEv.logPos # pre.end.pos
    /\ lastEv.gset # pre.end.gset
    /\ pre.inDML
    /\ pre.txn # pre.end
    /\ curStartLocation = pre.end
    /\ curEndLocation = pre.end

\* C19: the value getCurEndLocation() copies is curEndLocation as the last
\* completed update() or reset() left it (as constructed, before the first),
\* whatever place of update() or reset() the other thread was at when
\* getCurEndLocation() was called; and what a completed update() or reset()
\* leaves is what the call computes from the fields it found.
C19_ReadsCompletedEnd ==
    /\ [][(getter.pc # "read" /\ getter'.pc = "read") => got' = stable]_vars
    /\ [](getter.pc = "read" => (got = curEndLocation /\ updater.pc = "idle"))
    /\ []((updater.pc = "unlock" /\ updater.e # NoEvent) =>
             Fields = update(updater.f0, updater.e))
    /\ []((updater.pc = "unlock" /\ updater.e = NoEvent) =>
             Fields = reset(updater.f0, updater.loc))

\* getCurEndLocation() was called while update() had set the new name of a
\* rotation event and not yet the offset, and returned the completed
\* rotation's location
C19_Witness ==
    /\ getter.pc = "read"
    /\ getter.at = "rotPos"
    /\ got = stable
    /\ got.name = "mysql-bin.000002"
    /\ got.pos = FileHeaderLen
    /\ got.gset # "nil"

\* The worker waits for the watcher while its sub directory holds bytes
\* written after the decoder returned at the end of the file: the file is
\* larger than the recorded offset, or a file was created since
WaitsWithUnread ==
    /\ w.pc = "watchWait"
    /\ ~ctxDone
    /\ \/ FileSize(CurEpoch, CurFileNo) > w.latestPos
       \/ Len(dirs[CurEpoch]) > w.eofFiles

\* C20 as stated: a worker that is not cancelled never waits for the watcher
\* forever while its sub directory holds bytes that were appended, or a file
\* that was created, after the decoder returned at the end of the file.
C20_NoLostWakeup ==
    WaitsWithUnread ~> (w.pc # "watchWait" \/ ctxDone)

\* What does hold: a change the watcher saw after it added the directory
\* ends the wait
C20_ChangeAfterAddWakes ==
    (w.pc = "watchWait" /\ ~ctxDone /\ Changed # {}) ~> (w.pc # "watchWait" \/ ctxDone)

\* C21 as stated: the goroutine never finds its result channel full, the
\* watcher is closed whenever relaySubDirUpdated has returned from a call that
\* started it, and no goroutine of an earlier call is left when the next call
\* is made.
C21_Original ==
    /\ [](wt.cur = "select" => wt.result = "empty")
    /\ [](wt.pc = "idle" => wt.watcher # "open")
    /\ [](wt.stuck = 0)
    /\ [](wt.pc # "idle" => wt.oldAtStart = 0)

\* C21: the goroutine never finds its result channel full; the watcher is
\* closed whenever relaySubDirUpdated has returned from a call that started
\* it; a goroutine left behind by a return has its context cancelled and
\* ends, but it may still be there when the next call is made.
C21_EpisodeCleansUp ==
    /\ [](wt.cur = "select" => wt.result = "empty")
    /\ [](wt.pc = "idle" => wt.watcher # "open")
    /\ [](wt.stuck = 0)
    /\ [](wt.old <= wt.episodes)
    /\ (wt.old > 0) ~> (wt.old = 0)

\* relaySubDirUpdated returned because the file had grown, while its goroutine
\* was still in its select
C21_Witness ==
    /\ wt.pc = "idle"
    /\ wt.ret = "grown"
    /\ wt.watcher = "closed"
    /\ wt.old > 0
    /\ ~wt.ctx

\* C22 as stated: a worker that switches to the next sub directory has
\* parsed every relay log file of the sub directory it leaves.
C22_SwitchOnlyWhenDirParsed ==
    [][(w.pc = "parsed" /\ w'.pc = "parseRelay" /\ ~ctxDone) =>
          Len(dirs[CurEpoch]) = CurFileNo]_vars

\* The step is a StartSync that starts a worker on a reader whose earlier
\* worker has ended
StartsWorker == w.pc = "done" /\ w'.pc = "parseRelay"

\* C23 as stated: a StartSync that starts a worker after an earlier worker
\* has ended and a Close has returned starts it on a context that is not
\* cancelled.
C23_Restartable ==
    [][(StartsWorker /\ Closed) => ~ctxDone']_vars

\* C24 as stated: once the worker has ended with an error that is not the
\* context's, the running flag is false and StartSync with a file name is
\* not rejected as already running.
C24_RunningTracksWorker ==
    Failed =>
        /\ ~running
        /\ \A name \in StartNames \ {EmptyName} :
              StartSyncResult(name) # "ErrReaderRunning"

====
